---- MODULE Spec2Model ----
(***************************************************************************)
(* samples/payload_feeder.py: the frame catalog (build_frames) and the     *)
(* transmit loop (main), one action per statement of main.  The serial     *)
(* transport (pyserial) is an external collaborator: each of its calls     *)
(* either returns or raises.  SIGINT is delivered by the interpreter as a  *)
(* KeyboardInterrupt at the statement main is executing.                   *)
(***************************************************************************)
EXTENDS Integers, Sequences, FiniteSets, TLC

VARIABLES
    pc,         \* the statement main executes next
    ser,        \* the connection handle: "none", "open", "closed"
    catalog,    \* the catalog literal of this run: "as_written" or "emptied"
    frames,     \* main's local `frames`
    idx,        \* main's local `idx` (the cursor)
    frame,      \* main's local `frame`
    payload,    \* main's local `payload`
    delay,      \* args.delay
    pending,    \* the exception in flight when the finally block runs
    exitStatus, \* the status the process ends with (-1 while it runs)
    wire,       \* history: the byte messages the transport accepted
    log         \* history: the calls made and signals received, in order

vars == <<pc, ser, catalog, frames, idx, frame, payload, delay, pending,
          exitStatus, wire, log>>

\* ------------------------------------------------------------------ bounds

\* The cursor is unbounded in the program; the model stops the loop here.
MaxIdx == 11

\* How many interrupt signals the environment delivers in one run.
MaxInterrupts == 2

\* ------------------------------------------------------------ frame catalog

\* A dict item is <<key, type of the value, str value, int value, bool value>>.
StrField(k, s) == <<k, "str", s, 0, FALSE>>

IntField(k, n) == <<k, "int", "", n, FALSE>>

BoolField(k, b) == <<k, "bool", "", 0, b>>

\* A frame is a dict: its items in insertion order.
build_frames ==
    << << StrField("line1", "HELLO PI | {0x00}{0x01} | Scroll demo for a long line"),
          StrField("line2", "IP 192.168.0.99 | Uptime 12:34:56"),
          IntField("scroll_speed_ms", 200),
          IntField("page_timeout_ms", 50000) >>,
       << StrField("line1", "CPU LOAD"),
          IntField("bar_value", 730),
          IntField("bar_max", 1000),
          IntField("page_timeout_ms", 10000) >>,
       << StrField("line1", "ALERT: Temp"),
          StrField("line2", "85C HOT!"),
          BoolField("blink", TRUE),
          IntField("ttl_ms", 8000) >>,
       << StrField("line1", "Backlight OFF demo"),
          StrField("line2", "It should go dark"),
          BoolField("backlight", FALSE),
          IntField("page_timeout_ms", 4000) >>,
       << StrField("line1", "Clear + Test Pattern"),
          StrField("line2", "Ensure wiring is OK"),
          IntField("page_timeout_ms", 4000) >> >>

\* ------------------------------------------------------------ serialization

\* A str as JSON text: quoted (no character of the catalog needs an escape).
Quote(s) == "\"" \o s \o "\""

\* json.dumps of one value: a str is quoted, an int is its decimal digits,
\* a bool is the literal true or false.
DumpValue(f) ==
    CASE f[2] = "str"  -> Quote(f[3])
      [] f[2] = "int"  -> ToString(f[4])
      [] f[2] = "bool" -> IF f[5] THEN "true" ELSE "false"

RECURSIVE DumpItems(_)
\* The items of a dict with separators (",", ":"): "k":v joined by ",".
DumpItems(fr) ==
    IF fr = << >> THEN ""
    ELSE LET item == Quote(Head(fr)[1]) \o ":" \o DumpValue(Head(fr))
         IN IF Tail(fr) = << >> THEN item
            ELSE item \o "," \o DumpItems(Tail(fr))

\* json.dumps(frame, separators=(",", ":"))
Dumps(fr) == "{" \o DumpItems(fr) \o "}"

\* payload.encode("utf-8") + b"\n"
Message(p) == p \o "\n"

\* ------------------------------------------------------------------ history

Event(op, arg) == [op |-> op, arg |-> arg, at |-> pc]

Count(op) == Cardinality({i \in DOMAIN log : log[i].op = op})

\* ------------------------------------------------------------ process exit

\* The status the interpreter ends with when main returns or raises.
ExitCode(exc) ==
    CASE exc = "none"              -> 0
      [] exc = "KeyboardInterrupt" -> 130
      [] OTHER                     -> 1

\* The statements inside the try block.
TryPcs == {"select", "dumps", "write", "flush", "incr", "sleep"}

\* --delay values of the command line (seconds; the default is 4.0).
Delays == {0, 4}

\* -------------------------------------------------------------------- state

\* What build_frames() returns.
Catalog(cat) == IF cat = "emptied" THEN << >> ELSE build_frames

InitWith(cat) ==
    /\ pc = "open"
    /\ ser = "none"
    /\ catalog = cat
    /\ frames = << >>
    /\ idx = 0
    /\ frame = << >>
    /\ payload = ""
    /\ delay \in Delays
    /\ pending = "none"
    /\ exitStatus = -1
    /\ wire = << >>
    /\ log = << >>

Init == InitWith("as_written")

\* The same program with the catalog literal of build_frames either as it is
\* or emptied.
InitAnyCatalog == \E cat \in {"as_written", "emptied"} : InitWith(cat)

\* ------------------------------------------------------------------ actions

\* Open with the failure of serial.Serial() swallowed: main carries on.
OpenSwallowed ==
    /\ pc = "open"
    /\ \E ok \in BOOLEAN :
        /\ ser' = IF ok THEN "open" ELSE "none"
        /\ pc' = "build"
        /\ log' = Append(log, Event(IF ok THEN "open_ok" ELSE "open_fail", 0))
    /\ UNCHANGED <<catalog, frames, idx, frame, payload, delay, pending,
                   exitStatus, wire>>

\* ser = serial.Serial(args.device, args.baud, timeout=1)
Open ==
    /\ pc = "open"
    /\ \E ok \in BOOLEAN :
        IF ok
        THEN /\ ser' = "open"
             /\ pc' = "build"
             /\ log' = Append(log, Event("open_ok", 0))
             /\ UNCHANGED exitStatus
        ELSE /\ ser' = "none"
             /\ pc' = "done"
             /\ exitStatus' = ExitCode("SerialException")
             /\ log' = Append(log, Event("open_fail", 0))
    /\ UNCHANGED <<catalog, frames, idx, frame, payload, delay, pending, wire>>

\* frames = build_frames()
Build ==
    /\ pc = "build"
    /\ frames' = Catalog(catalog)
    /\ pc' = "init_idx"
    /\ UNCHANGED <<ser, catalog, idx, frame, payload, delay, pending,
                   exitStatus, wire, log>>

\* idx = 0, then the try block is entered
InitIdx ==
    /\ pc = "init_idx"
    /\ idx' = 0
    /\ pc' = "select"
    /\ UNCHANGED <<ser, catalog, frames, frame, payload, delay, pending,
                   exitStatus, wire, log>>

\* Select with the cursor taken modulo one less than the catalog length.
SelectShortCycle ==
    /\ pc = "select"
    /\ frame' = frames[(idx % (Len(frames) - 1)) + 1]
    /\ pc' = "dumps"
    /\ UNCHANGED <<ser, catalog, frames, idx, payload, delay, pending,
                   exitStatus, wire, log>>

\* frame = frames[idx % len(frames)]
Select ==
    /\ pc = "select"
    /\ IF Len(frames) = 0
       THEN /\ pending' = "ZeroDivisionError"
            /\ pc' = "finally"
            /\ UNCHANGED frame
       ELSE /\ frame' = frames[(idx % Len(frames)) + 1]
            /\ pc' = "dumps"
            /\ UNCHANGED pending
    /\ UNCHANGED <<ser, catalog, frames, idx, payload, delay, exitStatus,
                   wire, log>>

\* payload = json.dumps(frame, separators=(",", ":"))
DumpsStep ==
    /\ pc = "dumps"
    /\ payload' = Dumps(frame)
    /\ pc' = "write"
    /\ UNCHANGED <<ser, catalog, frames, idx, frame, delay, pending,
                   exitStatus, wire, log>>

\* Write with a failed write retried instead of propagated.
WriteRetried ==
    /\ pc = "write"
    /\ \E ok \in BOOLEAN :
        IF ok
        THEN /\ wire' = Append(wire, Message(payload))
             /\ log' = Append(log, Event("write_ok", idx))
             /\ pc' = "flush"
        ELSE /\ Count("write_fail") < 2
             /\ log' = Append(log, Event("write_fail", idx))
             /\ pc' = "write"
             /\ UNCHANGED wire
    /\ UNCHANGED <<ser, catalog, frames, idx, frame, payload, delay, pending,
                   exitStatus>>

\* ser.write(payload.encode("utf-8") + b"\n")
Write ==
    /\ pc = "write"
    /\ \E ok \in BOOLEAN :
        IF ok
        THEN /\ wire' = Append(wire, Message(payload))
             /\ log' = Append(log, Event("write_ok", idx))
             /\ pc' = "flush"
             /\ UNCHANGED pending
        ELSE /\ log' = Append(log, Event("write_fail", idx))
             /\ pending' = "SerialException"
             /\ pc' = "finally"
             /\ UNCHANGED wire
    /\ UNCHANGED <<ser, catalog, frames, idx, frame, payload, delay,
                   exitStatus>>

\* Flush with the cursor advanced before the flush's outcome is known.
FlushAdvancesCursor ==
    /\ pc = "flush"
    /\ idx < MaxIdx
    /\ idx' = idx + 1
    /\ \E ok \in BOOLEAN :
        IF ok
        THEN /\ log' = Append(log, Event("flush_ok", idx))
             /\ pc' = "sleep"
             /\ UNCHANGED pending
        ELSE /\ log' = Append(log, Event("flush_fail", idx))
             /\ pending' = "SerialException"
             /\ pc' = "finally"
    /\ UNCHANGED <<ser, catalog, frames, frame, payload, delay, exitStatus,
                   wire>>

\* ser.flush()
Flush ==
    /\ pc = "flush"
    /\ \E ok \in BOOLEAN :
        IF ok
        THEN /\ log' = Append(log, Event("flush_ok", idx))
             /\ pc' = "incr"
             /\ UNCHANGED pending
        ELSE /\ log' = Append(log, Event("flush_fail", idx))
             /\ pending' = "SerialException"
             /\ pc' = "finally"
    /\ UNCHANGED <<ser, catalog, frames, idx, frame, payload, delay,
                   exitStatus, wire>>

\* Incr with the loop continuing at once, the pacing sleep left out.
IncrWithoutSleep ==
    /\ pc = "incr"
    /\ idx < MaxIdx
    /\ idx' = idx + 1
    /\ pc' = "select"
    /\ UNCHANGED <<ser, catalog, frames, frame, payload, delay, pending,
                   exitStatus, wire, log>>

\* idx += 1
Incr ==
    /\ pc = "incr"
    /\ idx < MaxIdx
    /\ idx' = idx + 1
    /\ pc' = "sleep"
    /\ UNCHANGED <<ser, catalog, frames, frame, payload, delay, pending,
                   exitStatus, wire, log>>

\* Sleep with a frame-count limit: the loop ends by itself after 3 frames.
SleepWithLimit ==
    /\ pc = "sleep"
    /\ log' = Append(log, Event("sleep", delay))
    /\ pc' = IF idx >= 3 THEN "finally" ELSE "select"
    /\ UNCHANGED <<ser, catalog, frames, idx, frame, payload, delay, pending,
                   exitStatus, wire>>

\* time.sleep(args.delay), then the next iteration of while True
Sleep ==
    /\ pc = "sleep"
    /\ log' = Append(log, Event("sleep", delay))
    /\ pc' = "select"
    /\ UNCHANGED <<ser, catalog, frames, idx, frame, payload, delay, pending,
                   exitStatus, wire>>

\* Except with the interrupt re-raised by the handler.
ExceptReraises ==
    /\ pc = "except"
    /\ pending' = "KeyboardInterrupt"
    /\ pc' = "finally"
    /\ UNCHANGED <<ser, catalog, frames, idx, frame, payload, delay,
                   exitStatus, wire, log>>

\* except KeyboardInterrupt: pass
Except ==
    /\ pc = "except"
    /\ pending' = "none"
    /\ pc' = "finally"
    /\ UNCHANGED <<ser, catalog, frames, idx, frame, payload, delay,
                   exitStatus, wire, log>>

\* finally: ser.close(); then main returns, or the pending exception
\* propagates out of main
Finally ==
    /\ pc = "finally"
    /\ ser' = "closed"
    /\ log' = Append(log, Event("close", 0))
    /\ exitStatus' = ExitCode(pending)
    /\ pc' = "done"
    /\ UNCHANGED <<catalog, frames, idx, frame, payload, delay, pending, wire>>

\* SIGINT: KeyboardInterrupt is raised at the statement being executed.
Interrupt ==
    /\ Count("interrupt") < MaxInterrupts
    /\ \/ \* before or inside serial.Serial(): nothing was acquired
          /\ pc = "open"
          /\ pc' = "done"
          /\ exitStatus' = ExitCode("KeyboardInterrupt")
          /\ log' = Append(log, Event("interrupt", 0))
          /\ UNCHANGED <<ser, pending>>
       \/ \* after the open, before the try block: no handler, no finally
          /\ pc \in {"build", "init_idx"}
          /\ pc' = "done"
          /\ exitStatus' = ExitCode("KeyboardInterrupt")
          /\ log' = Append(log, Event("interrupt", 0))
          /\ UNCHANGED <<ser, pending>>
       \/ \* inside the try block: caught by except KeyboardInterrupt
          /\ pc \in TryPcs
          /\ pc' = "except"
          /\ log' = Append(log, Event("interrupt", 0))
          /\ UNCHANGED <<ser, pending, exitStatus>>
       \/ \* inside the handler: propagates through the finally block
          /\ pc = "except"
          /\ pending' = "KeyboardInterrupt"
          /\ pc' = "finally"
          /\ log' = Append(log, Event("interrupt", 0))
          /\ UNCHANGED <<ser, exitStatus>>
       \/ \* inside the finally block, before ser.close() is called
          /\ pc = "finally"
          /\ pc' = "done"
          /\ exitStatus' = ExitCode("KeyboardInterrupt")
          /\ log' = Append(log, Event("interrupt", 0))
          /\ UNCHANGED <<ser, pending>>
       \/ \* inside ser.close()
          /\ pc = "finally"
          /\ ser' = "closed"
          /\ pc' = "done"
          /\ exitStatus' = ExitCode("KeyboardInterrupt")
          /\ log' = log \o << Event("close", 0), Event("interrupt", 0) >>
          /\ UNCHANGED pending
    /\ UNCHANGED <<catalog, frames, idx, frame, payload, delay, wire>>

Program ==
    \/ Open
    \/ Build
    \/ InitIdx
    \/ Select
    \/ DumpsStep
    \/ Write
    \/ Flush
    \/ Incr
    \/ Sleep
    \/ Except
    \/ Finally

Next == Program \/ Interrupt

Spec == Init /\ [][Next]_vars

\* The interpreter always runs the next statement of main; signals and
\* transport faults are the environment's choice.
LiveSpec == Init /\ [][Next]_vars /\ WF_vars(Program)

SpecAnyCatalog == InitAnyCatalog /\ [][Next]_vars

\* ---------------------------------------------------------- history queries

\* The positions of the log holding an event of the given kinds.
At(ops) == {i \in DOMAIN log : log[i].op \in ops}

WriteOps == {"write_ok", "write_fail"}

FlushOps == {"flush_ok", "flush_fail"}

\* An interrupt or a transport fault has happened.
Disturbed == At({"interrupt", "write_fail", "flush_fail"}) # {}

\* ------------------------------------------------------------------- claims

\* C1: whenever the open succeeded, ser.close() has run exactly once by the
\* time the process ends (and never more than once), whatever the exit path.
C1_ReleasedExactlyOnce ==
    /\ Count("close") <= 1
    /\ (pc = "done" /\ Count("open_ok") = 1) => Count("close") = 1

\* C2: if the open fails, there is no write, no flush, no loop entry, no
\* second open, and the process has ended with a non-zero status.
C2_OpenFailureIsFatal ==
    Count("open_fail") > 0 =>
        /\ pc = "done"
        /\ exitStatus > 0
        /\ log = << [op |-> "open_fail", arg |-> 0, at |-> "open"] >>
        /\ wire = << >>
        /\ ser = "none"

C2_Witness == Count("open_fail") = 1 /\ pc = "done"

\* C3: with no interrupt, a failure of the k-th write leaves exactly k-1
\* successful writes, is the last write attempt, is followed only by the one
\* close, and the process ends with a non-zero status.
C3_WriteFaultIsFatal ==
    \A i \in At({"write_fail"}) :
        Count("interrupt") = 0 =>
            LET k == Cardinality({j \in At(WriteOps) : j <= i})
            IN /\ Count("write_ok") = k - 1
               /\ Cardinality(At(WriteOps)) = k
               /\ Len(wire) = k - 1
               /\ \A j \in DOMAIN log : j > i => log[j].op = "close"
               /\ Count("close") <= 1
               /\ pc \in {"finally", "done"}
               /\ pc = "done" => Count("close") = 1 /\ exitStatus > 0

C3_Witness ==
    /\ pc = "done"
    /\ Count("interrupt") = 0
    /\ Count("write_fail") = 1
    /\ Count("write_ok") = 2
    /\ Count("close") = 1

\* C4: the n-th message on the wire (from 0) is catalog entry n mod 5,
\* encoded; so the message at n equals the message at n + 5.
C4_CyclicSelection ==
    LET L == Len(build_frames)
    IN /\ \A n \in DOMAIN wire :
            wire[n] = Message(Dumps(build_frames[((n - 1) % L) + 1]))
       /\ \A n \in DOMAIN wire :
            n + L \in DOMAIN wire => wire[n] = wire[n + L]

C4_Witness ==
    /\ Len(wire) >= Len(build_frames) + 1
    /\ wire[1] = "{\"line1\":\"HELLO PI | {0x00}{0x01} | Scroll demo for a long line\",\"line2\":\"IP 192.168.0.99 | Uptime 12:34:56\",\"scroll_speed_ms\":200,\"page_timeout_ms\":50000}\n"
    /\ wire[3] = "{\"line1\":\"ALERT: Temp\",\"line2\":\"85C HOT!\",\"blink\":true,\"ttl_ms\":8000}\n"
    /\ \A m, n \in 1..Len(build_frames) : m # n => wire[m] # wire[n]

C6_InterruptIsNormalExit ==
    \A i \in At({"interrupt"}) :
        (Count("interrupt") = 1 /\ log[i].at \in TryPcs) =>
            /\ \A j \in DOMAIN log : j > i => log[j].op = "close"
            /\ Count("close") <= 1
            /\ pc \in {"except", "finally", "done"}
            /\ pc = "done" => (Count("close") = 1 /\ exitStatus = 0 /\ ser = "closed")

C6_Witness ==
    /\ pc = "done"
    /\ exitStatus = 0
    /\ Count("interrupt") = 1
    /\ \E i \in At({"interrupt"}) : log[i].at = "sleep"
    /\ Len(wire) >= 2

C8_FlushFollowsWrite ==
    \A i \in At({"write_ok"}) :
        /\ i < Len(log) => log[i + 1].op \in FlushOps
        /\ i = Len(log) => pc = "flush"

\* C9: of the writes and sleeps, the first is a write, and writes and sleeps
\* alternate, each sleep being of the configured delay.
C9_SendWaitAlternate ==
    LET ws == SelectSeq(log, LAMBDA e : e.op \in WriteOps \cup {"sleep"})
    IN /\ \A i \in DOMAIN ws :
            IF i % 2 = 1
            THEN ws[i].op \in WriteOps
            ELSE ws[i].op = "sleep" /\ ws[i].arg = delay
       /\ pc \in {"dumps", "write"} => Len(ws) % 2 = 0
       /\ pc = "sleep" => Len(ws) % 2 = 1

C9_Witness ==
    /\ Count("sleep") >= 2
    /\ Count("write_ok") >= 3
    /\ delay = 4

\* C10 as stated: in every reachable state the cursor is the number of
\* transmissions whose write and flush both succeeded.
C10_CursorEqualsFlushed ==
    /\ idx = Count("flush_ok")
    /\ pc \in {"open", "build", "init_idx"} => idx = 0

\* The cursor is the number of successful transmissions, or one behind it
\* between a successful flush and its increment (for good if an interrupt
\* arrives there), and 0 before the loop.
CursorTracks ==
    /\ idx \in {Count("flush_ok"), Count("flush_ok") - 1}
    /\ idx = Count("flush_ok") - 1 =>
            \/ pc = "incr"
            \/ \E i \in At({"interrupt"}) : log[i].at = "incr"
    /\ pc \in TryPcs \ {"incr"} => idx = Count("flush_ok")
    /\ pc \in {"open", "build", "init_idx"} => idx = 0

\* C10 amended: the cursor starts at 0 and changes only by the +1 of the
\* increment statement, which runs after a successful flush; it equals the
\* number of successful transmissions, or is one behind it between a
\* successful flush and its increment (for good if an interrupt arrives
\* there); a failed write or flush leaves it unchanged.
C10_CursorTracksFlushed ==
    [][/\ CursorTracks
       /\ CursorTracks'
       /\ idx' \in {idx, idx + 1}
       /\ idx' = idx + 1 =>
            (pc = "incr" /\ Count("flush_ok") = idx' /\ log' = log)
       /\ Count("write_fail")' + Count("flush_fail")'
            > Count("write_fail") + Count("flush_fail") => idx' = idx]_vars

C10_Witness ==
    /\ pc = "done"
    /\ idx = 2
    /\ Count("flush_ok") = 3
    /\ \E i \in At({"interrupt"}) : log[i].at = "incr"

====
